---- MODULE Spec2Model ----
(***************************************************************************)
(* AgentFrameworkPython: layered configuration resolution                  *)
(* (config_helpers.py) and the interactive streaming loop (main.py).       *)
(*                                                                         *)
(* Strings are sequences of one-character strings, paths are sequences of  *)
(* path components, JSON values are tagged tuples, JSON objects and Python *)
(* dicts are functions from keys to JSON values.                           *)
(***************************************************************************)
EXTENDS Integers, Sequences, FiniteSets, TLC

VARIABLES
    pc,              \* position of main() / of the process
    sigint_handler,  \* SIGINT handler in force while main() runs (runtime dependent)
    here,            \* Path(__file__).resolve().parent
    fs,              \* paths that exist on disk
    stdout,          \* everything written to standard output, in order
    base_path,       \* main.py:24
    dev_path,        \* main.py:24
    base_doc,        \* what load_json(base_path) returned (main.py:26)
    dev_doc,         \* what load_json(dev_path) returned (main.py:27)
    config,          \* main.py:23
    model_name,      \* main.py:29
    endpoint,        \* main.py:30
    api_key,         \* main.py:31
    client,          \* main.py:33
    raised,          \* the exception that left main(), if any
    exit_code,       \* exit status of the process, -1 while it runs
    reads,           \* what each completed input() call delivered, in order
    user_input,      \* main.py:49
    calls,           \* arguments of the run_stream calls made so far
    updates,         \* updates delivered by the current / last stream
    turn_start,      \* Len(stdout) when the current / last agent turn began
    outstanding,     \* streams started and not yet finished
    must_cancel,     \* asyncio: cancellation of the main task requested
    interrupt_count  \* asyncio.Runner: SIGINTs seen by its handler

vars == <<pc, sigint_handler, here, fs, stdout, base_path, dev_path, base_doc,
          dev_doc, config, model_name, endpoint, api_key, client, raised,
          exit_code, reads, user_input, calls, updates, turn_start,
          outstanding, must_cancel, interrupt_count>>

startup_vars == <<base_path, dev_path, base_doc, dev_doc, config, model_name,
                  endpoint, api_key, client>>
session_vars == <<reads, user_input, calls, updates, turn_start, outstanding,
                  must_cancel, interrupt_count>>
env_vars == <<sigint_handler, here, fs>>

----------------------------------------------------------------------------
(* Bounds *)

MaxValLen == 2      \* longest string drawn for a configuration value
MaxNum == 4         \* JSON numbers drawn are 1..MaxNum
MaxReads == 2       \* input() calls that deliver a line, per session
MaxUpdates == 3     \* updates delivered by one stream

----------------------------------------------------------------------------
(* Strings *)

Chars == {"a", " "}
Whitespace == {" "}

RECURSIVE StrOfLen(_)
StrOfLen(n) ==
    IF n = 0 THEN {<<>>}
    ELSE {Append(s, c) : s \in StrOfLen(n - 1), c \in Chars}

Strings(maxlen) == UNION {StrOfLen(n) : n \in 0..maxlen}

RECURSIVE lstrip(_)
lstrip(s) ==
    IF s # <<>> /\ Head(s) \in Whitespace THEN lstrip(Tail(s)) ELSE s

RECURSIVE rstrip(_)
rstrip(s) ==
    IF s # <<>> /\ s[Len(s)] \in Whitespace
    THEN rstrip(SubSeq(s, 1, Len(s) - 1))
    ELSE s

\* str.strip()
strip(s) == rstrip(lstrip(s))

RECURSIVE Concat(_)
Concat(ss) == IF ss = <<>> THEN <<>> ELSE Head(ss) \o Concat(Tail(ss))

----------------------------------------------------------------------------
(* JSON values and documents *)

JStr(s) == <<"str", s>>
JNum(n) == <<"num", n>>
JNull == <<"null">>
JObj(m) == <<"obj", m>>

EmptyMap == [k \in {} |-> JNull]

\* all mappings from a subset of keys to values
Mappings(keys, values) == UNION {[d -> values] : d \in SUBSET keys}

\* dict.get(key): None when the key is absent
get(d, key) == IF key \in DOMAIN d THEN d[key] ELSE JNull

\* isinstance(value, str)
isinstance_str(value) == value[1] = "str"

\* Results of load_json, by what json.loads produced.  map is what
\* config |= ... takes from the document.
ObjectDoc(m) == [kind |-> "object", map |-> m]
\* an array of [key, value] pairs, which dict |= accepts like a mapping
PairsDoc(m) == [kind |-> "pairs", map |-> m]
\* a number, null, a string, an array of other things: |= raises
ScalarDoc == [kind |-> "scalar", map |-> EmptyMap]
MalformedDoc == [kind |-> "malformed", map |-> EmptyMap] \* JSONDecodeError
UnreadableDoc == [kind |-> "unreadable", map |-> EmptyMap] \* OSError on read
NoDoc == [kind |-> "unread", map |-> EmptyMap]

----------------------------------------------------------------------------
(* Paths and messages *)

\* a path is the sequence of its components below the filesystem root
NoPath == <<"<None>">>                       \* Python None where a Path may be
Parent(p) == IF p = <<>> THEN p ELSE SubSeq(p, 1, Len(p) - 1)   \* Path.parent
Join(p, names) == p \o names                                    \* p / a / b

\* message text: a sequence of tokens; Nl is the newline character
Text(t) == <<"text", t>>
PathText(p) == <<"path", p>>
Nl == <<"nl">>

\* sep.join(items), items being token sequences
RECURSIVE StrJoin(_, _)
StrJoin(sep, items) ==
    IF items = <<>> THEN <<>>
    ELSE IF Len(items) = 1 THEN Head(items)
    ELSE Head(items) \o sep \o StrJoin(sep, Tail(items))

\* the lines of a message: its tokens split at every newline
RECURSIVE SplitLines(_, _)
SplitLines(msg, cur) ==
    IF msg = <<>> THEN <<cur>>
    ELSE IF Head(msg) = Nl THEN <<cur>> \o SplitLines(Tail(msg), <<>>)
    ELSE SplitLines(Tail(msg), Append(cur, Head(msg)))

Lines(msg) == SplitLines(msg, <<>>)

NoException == [type |-> "none", msg |-> <<>>]
Exception(type, msg) == [type |-> type, msg |-> msg]

----------------------------------------------------------------------------
(* config_helpers.py *)

DevFileName == "appsettings.Development.json"
BaseFileName == "appsettings.json"

BasePathOf(here_) == Join(Parent(here_), <<"AgentFramework", BaseFileName>>)

\* candidates (config_helpers.py:26-30)
candidates_swapped(here_) ==
    << Join(Parent(here_), <<"AgentFramework", DevFileName>>),
       Join(here_, <<DevFileName>>),
       Join(Parent(here_), <<"AgentFramework", "bin", "Debug", "net10.0", DevFileName>>) >>

candidates(here_) ==
    << Join(here_, <<DevFileName>>),
       Join(Parent(here_), <<"AgentFramework", DevFileName>>),
       Join(Parent(here_), <<"AgentFramework", "bin", "Debug", "net10.0", DevFileName>>) >>

\* next((p for p in ps if p.exists()), None)
RECURSIVE first_existing(_, _)
first_existing(ps, fs_) ==
    IF ps = <<>> THEN NoPath
    ELSE IF Head(ps) \in fs_ THEN Head(ps)
    ELSE first_existing(Tail(ps), fs_)

\* the FileNotFoundError message (config_helpers.py:33-35)
not_found_message_one_line(cands) ==
    <<Text("appsettings.Development.json not found. Expected one of:"), Nl>>
    \o StrJoin(<<Text(", ")>>,
               [i \in 1..Len(cands) |-> <<Text("- "), PathText(cands[i])>>])

not_found_message(cands) ==
    <<Text("appsettings.Development.json not found. Expected one of:"), Nl>>
    \o StrJoin(<<Nl>>,
               [i \in 1..Len(cands) |-> <<Text("- "), PathText(cands[i])>>])

resolve_appsettings_paths(here_, fs_) ==
    LET base == BasePathOf(here_)
        base_path_ == IF base \in fs_ THEN base ELSE NoPath
        cands == candidates(here_)
        dev_path_ == first_existing(cands, fs_)
    IN  IF dev_path_ = NoPath
        THEN [raised |-> Exception("FileNotFoundError", not_found_message(cands)),
              base_path |-> NoPath, dev_path |-> NoPath]
        ELSE [raised |-> NoException,
              base_path |-> base_path_, dev_path |-> dev_path_]

require_str_message(key) ==
    <<Text(key), Text(" not found in "), Text(DevFileName)>>

require_str_no_blank_check(config_, key) ==
    LET value == get(config_, key)
    IN  IF ~isinstance_str(value)
        THEN [raised |-> Exception("ValueError", require_str_message(key)),
              value |-> <<>>]
        ELSE [raised |-> NoException, value |-> value[2]]

require_str_stripped(config_, key) ==
    LET value == get(config_, key)
    IN  IF ~isinstance_str(value) \/ strip(value[2]) = <<>>
        THEN [raised |-> Exception("ValueError", require_str_message(key)),
              value |-> <<>>]
        ELSE [raised |-> NoException, value |-> strip(value[2])]

\* require_str (config_helpers.py:12-16)
require_str(config_, key) ==
    LET value == get(config_, key)
    IN  IF ~isinstance_str(value) \/ strip(value[2]) = <<>>
        THEN [raised |-> Exception("ValueError", require_str_message(key)),
              value |-> <<>>]
        ELSE [raised |-> NoException, value |-> value[2]]

\* load_json followed by config |= ... : the exception, if any
load_error(doc) ==
    CASE doc.kind = "unreadable" -> Exception("OSError", <<>>)
      [] doc.kind = "malformed"  -> Exception("JSONDecodeError", <<>>)
      [] doc.kind = "scalar"     -> Exception("TypeError", <<>>)
      [] OTHER                   -> NoException

dict_ior_deep(d, other) ==
    [k \in DOMAIN d \cup DOMAIN other |->
        IF k \notin DOMAIN other THEN d[k]
        ELSE IF k \notin DOMAIN d THEN other[k]
        ELSE IF d[k][1] = "obj" /\ other[k][1] = "obj"
             THEN JObj([j \in DOMAIN d[k][2] \cup DOMAIN other[k][2] |->
                          IF j \in DOMAIN other[k][2]
                          THEN other[k][2][j] ELSE d[k][2][j]])
             ELSE other[k]]

\* d |= other, for a mapping other
dict_ior(d, other) ==
    [k \in DOMAIN d \cup DOMAIN other |->
        IF k \in DOMAIN other THEN other[k] ELSE d[k]]

----------------------------------------------------------------------------
(* main.py: start-up *)

RequiredKeys == <<"ModelName", "Endpoint", "ApiKey">>

Unset == <<"<unset>">>       \* a local not yet assigned
NoClient == [built |-> FALSE, endpoint |-> Unset, deployment_name |-> Unset,
             api_key |-> Unset]

Banner == "=== Running: AgentFrameworkPython ==="
UserPrompt == "user> "
AgentPrompt == "agent> "
Newline == "\n"

\* the directory main.py lives in
MainHere == <<"repo", "AgentFrameworkPython">>

\* directories resolve_appsettings_paths is applied to
Heres == {MainHere, <<"repo", "AgentFramework">>, <<"AgentFramework">>, <<>>}

\* the paths whose existence is drawn: the base file, the three candidates,
\* and an appsettings.json alongside the entry point (never looked at)
Universe(here_) ==
    {BasePathOf(here_), Join(here_, <<BaseFileName>>)}
    \cup {candidates(here_)[i] : i \in 1..3}

\* an uncaught exception leaves main() and asyncio.run(): traceback, status 1
Raise(exc) ==
    /\ pc' = "exited"
    /\ raised' = exc
    /\ exit_code' = 1

InitWith(heres) ==
    /\ pc = "start"
    /\ sigint_handler \in {"default", "asyncio"}
    /\ here \in heres
    /\ fs \in SUBSET Universe(here)
    /\ stdout = <<>>
    /\ base_path = NoPath
    /\ dev_path = NoPath
    /\ base_doc = NoDoc
    /\ dev_doc = NoDoc
    /\ config = EmptyMap
    /\ model_name = Unset
    /\ endpoint = Unset
    /\ api_key = Unset
    /\ client = NoClient
    /\ raised = NoException
    /\ exit_code = -1
    /\ reads = <<>>
    /\ user_input = Unset
    /\ calls = <<>>
    /\ updates = <<>>
    /\ turn_start = 0
    /\ outstanding = 0
    /\ must_cancel = FALSE
    /\ interrupt_count = 0

\* main() wherever the files are
InitStartup == InitWith({MainHere})

\* main() with the development file alongside it, if anywhere
Init ==
    /\ InitStartup
    /\ fs \subseteq {candidates(here)[1], BasePathOf(here)}

\* main.py:19-24
ResolvePaths ==
    /\ pc = "start"
    /\ stdout' = stdout \o <<Banner, Newline>>
    /\ LET r == resolve_appsettings_paths(here, fs)
       IN  IF r.raised.type # "none"
           THEN /\ Raise(r.raised)
                /\ UNCHANGED <<base_path, dev_path>>
           ELSE /\ base_path' = r.base_path
                /\ dev_path' = r.dev_path
                /\ pc' = "load_base"
                /\ UNCHANGED <<raised, exit_code>>
    /\ UNCHANGED <<base_doc, dev_doc, config, model_name, endpoint, api_key, client>>
    /\ UNCHANGED <<env_vars, session_vars>>

\* main.py:25-26, the file read being any document of D
LoadBase(D) ==
    /\ pc = "load_base"
    /\ IF base_path = NoPath
       THEN /\ pc' = "load_dev"
            /\ UNCHANGED <<base_doc, config, raised, exit_code>>
       ELSE \E doc \in D :
            /\ base_doc' = doc
            /\ IF load_error(doc).type # "none"
               THEN /\ Raise(load_error(doc))
                    /\ UNCHANGED config
               ELSE /\ config' = dict_ior(config, doc.map)
                    /\ pc' = "load_dev"
                    /\ UNCHANGED <<raised, exit_code>>
    /\ UNCHANGED <<base_path, dev_path, dev_doc, model_name, endpoint, api_key, client>>
    /\ UNCHANGED <<env_vars, session_vars, stdout>>

\* main.py:27
LoadDev(D) ==
    /\ pc = "load_dev"
    /\ \E doc \in D :
        /\ dev_doc' = doc
        /\ IF load_error(doc).type # "none"
           THEN /\ Raise(load_error(doc))
                /\ UNCHANGED config
           ELSE /\ config' = dict_ior(config, doc.map)
                /\ pc' = "require_model_name"
                /\ UNCHANGED <<raised, exit_code>>
    /\ UNCHANGED <<base_path, dev_path, base_doc, model_name, endpoint, api_key, client>>
    /\ UNCHANGED <<env_vars, session_vars, stdout>>

\* main.py:29
RequireModelName ==
    /\ pc = "require_model_name"
    /\ LET r == require_str(config, "ModelName")
       IN  IF r.raised.type # "none"
           THEN Raise(r.raised) /\ UNCHANGED model_name
           ELSE /\ model_name' = r.value
                /\ pc' = "require_endpoint"
                /\ UNCHANGED <<raised, exit_code>>
    /\ UNCHANGED <<base_path, dev_path, base_doc, dev_doc, config, endpoint, api_key, client>>
    /\ UNCHANGED <<env_vars, session_vars, stdout>>

\* main.py:30
RequireEndpoint ==
    /\ pc = "require_endpoint"
    /\ LET r == require_str(config, "Endpoint")
       IN  IF r.raised.type # "none"
           THEN Raise(r.raised) /\ UNCHANGED endpoint
           ELSE /\ endpoint' = r.value
                /\ pc' = "require_api_key"
                /\ UNCHANGED <<raised, exit_code>>
    /\ UNCHANGED <<base_path, dev_path, base_doc, dev_doc, config, model_name, api_key, client>>
    /\ UNCHANGED <<env_vars, session_vars, stdout>>

RequireApiKeyUnchecked ==
    /\ pc = "require_api_key"
    /\ api_key' = get(config, "ApiKey")
    /\ pc' = "create_client"
    /\ UNCHANGED <<raised, exit_code>>
    /\ UNCHANGED <<base_path, dev_path, base_doc, dev_doc, config, model_name, endpoint, client>>
    /\ UNCHANGED <<env_vars, session_vars, stdout>>

\* main.py:31
RequireApiKey ==
    /\ pc = "require_api_key"
    /\ LET r == require_str(config, "ApiKey")
       IN  IF r.raised.type # "none"
           THEN Raise(r.raised) /\ UNCHANGED api_key
           ELSE /\ api_key' = r.value
                /\ pc' = "create_client"
                /\ UNCHANGED <<raised, exit_code>>
    /\ UNCHANGED <<base_path, dev_path, base_doc, dev_doc, config, model_name, endpoint, client>>
    /\ UNCHANGED <<env_vars, session_vars, stdout>>

\* main.py:33-45; the client library accepts the settings or raises
CreateClient ==
    /\ pc = "create_client"
    /\ \E accepted \in BOOLEAN :
        IF accepted
        THEN /\ client' = [built |-> TRUE, endpoint |-> endpoint,
                           deployment_name |-> model_name, api_key |-> api_key]
             /\ pc' = "loop"
             /\ UNCHANGED <<raised, exit_code>>
        ELSE /\ Raise(Exception("ClientError", <<>>))
             /\ UNCHANGED client
    /\ UNCHANGED <<base_path, dev_path, base_doc, dev_doc, config, model_name, endpoint, api_key>>
    /\ UNCHANGED <<env_vars, session_vars, stdout>>

----------------------------------------------------------------------------
(* main.py: the interactive loop *)

\* lines drawn for standard input: empty, blank, padded content
InputLines == {<<>>, <<" ">>, <<" ", "a">>}

\* update.text of the streamed updates drawn: empty or one character
UpdateTexts == {<<>>, <<"a">>, <<"b">>}

\* if update.text:
truthy(text) == text # <<>>

LinesRead == Cardinality({i \in 1..Len(reads) : reads[i][1] = "line"})

\* main.py:49, input("user> ") writes its prompt and waits
Prompt ==
    /\ pc = "loop"
    /\ stdout' = Append(stdout, UserPrompt)
    /\ pc' = "input"
    /\ UNCHANGED <<env_vars, startup_vars, session_vars, raised, exit_code>>

InputLineNoStrip ==
    /\ pc = "input"
    /\ LinesRead < MaxReads
    /\ \E line \in InputLines :
        /\ reads' = Append(reads, <<"line", line>>)
        /\ user_input' = line
        /\ pc' = IF line = <<>> THEN "loop" ELSE "turn"
    /\ UNCHANGED <<calls, updates, turn_start, outstanding, must_cancel, interrupt_count>>
    /\ UNCHANGED <<env_vars, startup_vars, stdout, raised, exit_code>>

\* main.py:49 and 54-55, input() returns a line
InputLine ==
    /\ pc = "input"
    /\ LinesRead < MaxReads
    /\ \E line \in InputLines :
        /\ reads' = Append(reads, <<"line", line>>)
        /\ user_input' = strip(line)
        /\ pc' = IF strip(line) = <<>> THEN "loop" ELSE "turn"
    /\ UNCHANGED <<calls, updates, turn_start, outstanding, must_cancel, interrupt_count>>
    /\ UNCHANGED <<env_vars, startup_vars, stdout, raised, exit_code>>

\* main.py:49-52, input() raises EOFError
InputEOF ==
    /\ pc = "input"
    /\ reads' = Append(reads, <<"eof">>)
    /\ stdout' = Append(stdout, Newline)
    /\ pc' = "returned"
    /\ UNCHANGED <<user_input, calls, updates, turn_start, outstanding, must_cancel, interrupt_count>>
    /\ UNCHANGED <<env_vars, startup_vars, raised, exit_code>>

\* main.py:49-52, SIGINT while input() waits.  Under the handler that
\* asyncio.run installs, the first SIGINT only requests cancellation of the
\* main task and input() keeps waiting; otherwise KeyboardInterrupt is
\* raised in input().
InputSigint ==
    /\ pc = "input"
    /\ IF sigint_handler = "asyncio" /\ interrupt_count = 0
       THEN /\ interrupt_count' = 1
            /\ must_cancel' = TRUE
            /\ UNCHANGED <<pc, reads, stdout>>
       ELSE /\ interrupt_count' =
                  IF sigint_handler = "asyncio" THEN interrupt_count + 1
                  ELSE interrupt_count
            /\ reads' = Append(reads, <<"sigint">>)
            /\ stdout' = Append(stdout, Newline)
            /\ pc' = "returned"
            /\ UNCHANGED must_cancel
    /\ UNCHANGED <<user_input, calls, updates, turn_start, outstanding>>
    /\ UNCHANGED <<env_vars, startup_vars, raised, exit_code>>

\* main.py:57-58, the agent prefix and the call of run_stream
StartStream ==
    /\ pc = "turn"
    /\ turn_start' = Len(stdout)
    /\ stdout' = Append(stdout, AgentPrompt)
    /\ calls' = Append(calls, user_input)
    /\ updates' = <<>>
    /\ outstanding' = outstanding + 1
    /\ pc' = "streaming"
    /\ UNCHANGED <<reads, user_input, must_cancel, interrupt_count>>
    /\ UNCHANGED <<env_vars, startup_vars, raised, exit_code>>

NextUpdateSpaced ==
    /\ pc = "streaming"
    /\ ~must_cancel
    /\ Len(updates) < MaxUpdates
    /\ \E text \in UpdateTexts :
        /\ updates' = Append(updates, text)
        /\ stdout' = IF truthy(text) THEN stdout \o text \o <<" ">> ELSE stdout
    /\ UNCHANGED <<pc, reads, user_input, calls, turn_start, outstanding, must_cancel, interrupt_count>>
    /\ UNCHANGED <<env_vars, startup_vars, raised, exit_code>>

\* main.py:58-60, the stream delivers one update
NextUpdate ==
    /\ pc = "streaming"
    /\ ~must_cancel
    /\ Len(updates) < MaxUpdates
    /\ \E text \in UpdateTexts :
        /\ updates' = Append(updates, text)
        /\ stdout' = IF truthy(text) THEN stdout \o text ELSE stdout
    /\ UNCHANGED <<pc, reads, user_input, calls, turn_start, outstanding, must_cancel, interrupt_count>>
    /\ UNCHANGED <<env_vars, startup_vars, raised, exit_code>>

StreamCompleteEarlyPrompt ==
    /\ pc = "streaming"
    /\ ~must_cancel
    /\ pc' = "loop"
    /\ UNCHANGED <<stdout, outstanding>>
    /\ UNCHANGED <<reads, user_input, calls, updates, turn_start, must_cancel, interrupt_count>>
    /\ UNCHANGED <<env_vars, startup_vars, raised, exit_code>>

\* main.py:58 and 61, the stream is exhausted
StreamComplete ==
    /\ pc = "streaming"
    /\ ~must_cancel
    /\ stdout' = Append(stdout, Newline)
    /\ outstanding' = outstanding - 1
    /\ pc' = "loop"
    /\ UNCHANGED <<reads, user_input, calls, updates, turn_start, must_cancel, interrupt_count>>
    /\ UNCHANGED <<env_vars, startup_vars, raised, exit_code>>

\* main.py:58, the await of the next update raises: a failure of the
\* service, or the cancellation requested by the SIGINT handler
StreamFail ==
    /\ pc = "streaming"
    /\ Raise(Exception(IF must_cancel THEN "CancelledError" ELSE "StreamError", <<>>))
    /\ outstanding' = outstanding - 1
    /\ UNCHANGED <<reads, user_input, calls, updates, turn_start, must_cancel, interrupt_count>>
    /\ UNCHANGED <<env_vars, startup_vars, stdout>>

\* main.py:64-65, main() has returned to asyncio.run: a task whose
\* cancellation was requested ends cancelled and the runner raises
\* KeyboardInterrupt; otherwise the process ends with status 0
RunnerExit ==
    /\ pc = "returned"
    /\ pc' = "exited"
    /\ IF must_cancel
       THEN /\ raised' = Exception("KeyboardInterrupt", <<>>)
            /\ exit_code' = 130
       ELSE /\ exit_code' = 0
            /\ UNCHANGED raised
    /\ UNCHANGED <<env_vars, startup_vars, session_vars, stdout>>

----------------------------------------------------------------------------
(* Documents drawn for the files read *)

RequiredKeySet == {RequiredKeys[i] : i \in 1..Len(RequiredKeys)}

GoodDoc == ObjectDoc([k \in RequiredKeySet |-> JStr(<<"a">>)])
BlankModelDoc ==
    ObjectDoc([k \in RequiredKeySet |->
                 IF k = "ModelName" THEN JStr(<<" ">>) ELSE JStr(<<"a">>)])

\* a few documents, for runs that go on into the interactive loop
SampleDocs == {GoodDoc, BlankModelDoc, MalformedDoc}

\* values a required key is drawn from
ConfigValues ==
    {JNull, JNum(1)} \cup {JStr(t) : t \in Strings(MaxValLen)}

BaseDocs ==
    {ObjectDoc(EmptyMap), GoodDoc, BlankModelDoc, PairsDoc(GoodDoc.map),
     MalformedDoc, ScalarDoc, UnreadableDoc}

DevDocs ==
    {ObjectDoc(m) : m \in Mappings(RequiredKeySet, ConfigValues)}
    \cup {PairsDoc(EmptyMap), PairsDoc(GoodDoc.map), PairsDoc(BlankModelDoc.map)}
    \cup {MalformedDoc, ScalarDoc, UnreadableDoc}

\* documents for the merge: numbers and nested objects under three keys
MergeKeys == {"A", "B", "C"}
MergeValues ==
    {JNum(n) : n \in 1..MaxNum}
    \cup {JObj(m) : m \in Mappings({"x", "y"}, {JNum(1)})}
MergeDocs == {ObjectDoc(m) : m \in Mappings(MergeKeys, MergeValues)}

----------------------------------------------------------------------------
(* Specifications *)

\* main() as a whole
Next ==
    \/ ResolvePaths
    \/ LoadBase(SampleDocs)
    \/ LoadDev(SampleDocs)
    \/ RequireModelName
    \/ RequireEndpoint
    \/ RequireApiKey
    \/ CreateClient
    \/ Prompt
    \/ InputLine
    \/ InputEOF
    \/ InputSigint
    \/ StartStream
    \/ NextUpdate
    \/ StreamComplete
    \/ StreamFail
    \/ RunnerExit

Spec == Init /\ [][Next]_vars

\* main() over a wide range of documents, standard input being closed
NextStartup ==
    \/ ResolvePaths
    \/ LoadBase(BaseDocs)
    \/ LoadDev(DevDocs)
    \/ RequireModelName
    \/ RequireEndpoint
    \/ RequireApiKey
    \/ CreateClient
    \/ Prompt
    \/ InputEOF
    \/ RunnerExit

SpecStartup == InitStartup /\ [][NextStartup]_vars

\* main.py:23-27 over pairs of object documents
InitMerge ==
    /\ Init
    /\ candidates(here)[1] \in fs

NextMerge ==
    \/ ResolvePaths
    \/ LoadBase(MergeDocs)
    \/ LoadDev(MergeDocs)

SpecMerge == InitMerge /\ [][NextMerge]_vars

\* resolve_appsettings_paths over start directories and file systems
InitResolve == InitWith(Heres)

NextResolve == ResolvePaths

SpecResolve == InitResolve /\ [][NextResolve]_vars

----------------------------------------------------------------------------
(* Properties: configuration resolution *)

Last(q) == q[Len(q)]

\* the value of key in d is a string with a non-whitespace character
ValidSetting(d, key) ==
    /\ key \in DOMAIN d
    /\ d[key][1] = "str"
    /\ \E i \in 1..Len(d[key][2]) : d[key][2][i] \notin Whitespace

StartupFailures ==
    {"FileNotFoundError", "OSError", "JSONDecodeError", "TypeError", "ValueError"}

\* the three development-path candidates, as the claims list them
ClaimedCandidate(i) ==
    CASE i = 1 -> here \o <<"appsettings.Development.json">>
      [] i = 2 -> Parent(here) \o <<"AgentFramework", "appsettings.Development.json">>
      [] i = 3 -> Parent(here) \o <<"AgentFramework", "bin", "Debug", "net10.0",
                                    "appsettings.Development.json">>

ExistingCandidates == {i \in 1..3 : ClaimedCandidate(i) \in fs}

EarliestExisting ==
    CHOOSE i \in ExistingCandidates : \A j \in ExistingCandidates : i <= j

\* C1: the client is constructed only if a development file was found, every
\* loaded file parsed, and ModelName, Endpoint and ApiKey of the merged
\* configuration are strings with a non-whitespace character; a run in which
\* path resolution, parsing or validation fails never constructs the client
\* and never reads a prompt.
C1_ClientOnlyAfterValidConfig ==
    /\ client.built =>
          /\ dev_path # NoPath
          /\ dev_path \in fs
          /\ dev_doc.kind \in {"object", "pairs"}
          /\ base_path # NoPath => base_doc.kind \in {"object", "pairs"}
          /\ \A i \in 1..3 : ValidSetting(config, RequiredKeys[i])
    /\ raised.type \in StartupFailures =>
          /\ ~client.built
          /\ reads = <<>>
          /\ \A i \in 1..Len(stdout) : stdout[i] # UserPrompt
    /\ (pc \in {"loop", "input", "turn", "streaming", "returned"}) => client.built

C1_Witness ==
    /\ client.built
    /\ base_path # NoPath
    /\ pc = "input"

\* C2: the merged configuration has exactly the union of the top-level keys
\* of the base and development documents; a key of the development document
\* carries its value there (a nested object included, as a whole), any other
\* key keeps the base value.
C2_ShallowMerge ==
    (pc = "require_model_name") =>
        LET b == IF base_path = NoPath THEN EmptyMap ELSE base_doc.map
            d == dev_doc.map
        IN  /\ DOMAIN config = DOMAIN b \cup DOMAIN d
            /\ \A k \in DOMAIN config :
                  IF k \in DOMAIN d THEN config[k] = d[k] ELSE config[k] = b[k]

C2_Witness ==
    /\ pc = "require_model_name"
    /\ base_path # NoPath
    /\ base_doc.map = [k \in {"A", "B"} |-> IF k = "A" THEN JNum(1) ELSE JNum(2)]
    /\ dev_doc.map = [k \in {"B", "C"} |-> IF k = "B" THEN JNum(3) ELSE JNum(4)]
    /\ config = [k \in {"A", "B", "C"} |->
                    CASE k = "A" -> JNum(1) [] k = "B" -> JNum(3) [] k = "C" -> JNum(4)]

\* C3: if at least one development-path candidate exists, the development
\* path returned is the earliest existing candidate, whatever else exists.
C3_FirstCandidateWins ==
    (pc # "start" /\ ExistingCandidates # {}) =>
        /\ raised.type = "none"
        /\ dev_path = ClaimedCandidate(EarliestExisting)

C3_Witness ==
    /\ pc = "load_base"
    /\ ExistingCandidates = {2, 3}
    /\ BasePathOf(here) \notin fs
    /\ dev_path = ClaimedCandidate(2)

\* the paths named on line n of a message
PathsOnLine(msg, n) ==
    LET line == Lines(msg)[n]
    IN  SelectSeq(line, LAMBDA tok : tok[1] = "path")

\* C4: when no candidate exists, resolve_appsettings_paths fails with a
\* not-found error and returns no paths, and the message lists the three
\* attempted paths, each on its own line, in candidate order.
C4_NotFoundListsCandidates ==
    (pc # "start" /\ ExistingCandidates = {}) =>
        /\ pc = "exited"
        /\ raised.type = "FileNotFoundError"
        /\ base_path = NoPath /\ dev_path = NoPath
        /\ Len(Lines(raised.msg)) = 4
        /\ PathsOnLine(raised.msg, 1) = <<>>
        /\ \A i \in 1..3 :
              PathsOnLine(raised.msg, i + 1) = <<PathText(ClaimedCandidate(i))>>

C4_Witness ==
    /\ pc = "exited"
    /\ raised.type = "FileNotFoundError"
    /\ BasePathOf(here) \in fs

\* the required keys that do not hold a valid setting, in checking order
InvalidKeys == SelectSeq(RequiredKeys, LAMBDA k : ~ValidSetting(config, k))

AfterLoad ==
    pc \notin {"start", "load_base", "load_dev"} /\ dev_doc.kind \in {"object", "pairs"}

\* C5: require_str(config, K) fails exactly when K is absent, not a string,
\* or empty or whitespace-only; the error names K and refers to
\* appsettings.Development.json, also when a base file was loaded.
C5_RequireStr ==
    AfterLoad =>
        /\ \A i \in 1..3 :
              LET K == RequiredKeys[i]
                  r == require_str(config, K)
              IN  IF ValidSetting(config, K)
                  THEN r.raised.type = "none"
                  ELSE /\ r.raised.type = "ValueError"
                       /\ r.raised.msg[1] = Text(K)
                       /\ Last(r.raised.msg) = Text("appsettings.Development.json")
        /\ (pc = "exited" /\ InvalidKeys # <<>>) =>
              /\ raised.type = "ValueError"
              /\ raised.msg[1] = Text(Head(InvalidKeys))
              /\ Last(raised.msg) = Text("appsettings.Development.json")
        /\ (pc = "exited" /\ InvalidKeys = <<>>) => raised.type # "ValueError"

C5_Witness ==
    /\ pc = "exited"
    /\ base_path # NoPath
    /\ base_doc.kind = "object"
    /\ raised.type = "ValueError"
    /\ raised.msg[1] = Text("Endpoint")
    /\ get(config, "Endpoint") = JStr(<<" ", " ">>)

\* C6: without a base file the base path is none, and a development document
\* with all three required keys valid yields exactly its own values.
C6_DevOnly ==
    (pc # "start" /\ BasePathOf(here) \notin fs) =>
        /\ base_path = NoPath
        /\ (dev_doc.kind = "object"
            /\ \A i \in 1..3 : ValidSetting(dev_doc.map, RequiredKeys[i])) =>
              /\ raised.type \notin StartupFailures
              /\ config = dev_doc.map
              /\ (pc \notin {"load_dev", "require_model_name", "require_endpoint",
                             "require_api_key"}) =>
                    /\ model_name = dev_doc.map["ModelName"][2]
                    /\ endpoint = dev_doc.map["Endpoint"][2]
                    /\ api_key = dev_doc.map["ApiKey"][2]

C6_Witness ==
    /\ BasePathOf(here) \notin fs
    /\ client.built
    /\ client.deployment_name = <<" ", "a">>
    /\ client.endpoint = <<"a", " ">>
    /\ dev_doc.map["ApiKey"] = JStr(<<"a">>)

----------------------------------------------------------------------------
(* Properties: the interactive loop *)

\* a line with at least one non-whitespace character
HasContent(line) == \E i \in 1..Len(line) : line[i] \notin Whitespace

ContentLinesRead ==
    Cardinality({i \in 1..Len(reads) :
                    reads[i][1] = "line" /\ HasContent(reads[i][2])})

\* input() has just returned a line without content
BlankLineRead ==
    /\ reads' # reads
    /\ Last(reads')[1] = "line"
    /\ ~HasContent(Last(reads')[2])

\* C7: a line that is empty or whitespace-only causes no streaming call and
\* no output, and the next step displays the prompt and reads again; the
\* number of streaming calls equals the number of lines with content.
C7_BlankLineSkipped ==
    /\ [](Len(calls) = ContentLinesRead - (IF pc = "turn" THEN 1 ELSE 0))
    /\ [][BlankLineRead =>
            (calls' = calls /\ stdout' = stdout /\ pc' = "loop")]_vars
    /\ [][(pc = "loop") =>
            (pc' = "input" /\ stdout' = Append(stdout, UserPrompt)
             /\ calls' = calls)]_vars

C7_Witness ==
    /\ pc = "input"
    /\ Len(reads) = 2
    /\ reads[1] = <<"line", <<" ", "a">>>>
    /\ reads[2] = <<"line", <<" ">>>>
    /\ Len(calls) = 1
    /\ Last(stdout) = UserPrompt

\* C8: on end-of-input or an interrupt signal the loop exits and the
\* process terminates with exit code 0, with no further client call.
C8_CleanExit ==
    \A i \in 1..Len(reads) :
        reads[i][1] \in {"eof", "sigint"} =>
            /\ i = Len(reads)
            /\ pc \in {"returned", "exited"}
            /\ Len(calls) = ContentLinesRead
            /\ pc = "exited" => exit_code = 0

TurnOutput(out) == SubSeq(out, turn_start + 1, Len(out))

\* C9: the output of an agent turn is "agent> ", then the texts of the
\* updates in arrival order with nothing between them, then one newline,
\* written only once the stream has completed.
C9_TurnOutput ==
    /\ [](pc = "streaming" =>
            TurnOutput(stdout) =
                <<AgentPrompt>> \o Concat(updates))
    /\ [][(pc = "streaming" /\ pc' = "loop") =>
            TurnOutput(stdout') =
                <<AgentPrompt>>
                \o Concat(updates)
                \o <<Newline>>]_vars

C9_Witness ==
    /\ pc = "loop"
    /\ Len(calls) = 1
    /\ updates = <<<<"a">>, <<>>, <<"b">>>>
    /\ TurnOutput(stdout) = <<AgentPrompt, "a", "b", Newline>>

\* C10: at most one stream is outstanding; a streaming call follows the read
\* of a line, and between the start of a stream and its completion there is
\* no read from standard input and no new call; the trailing newline is
\* written before the next prompt.
C10_OneExchangeAtATime ==
    /\ [](outstanding = (IF pc = "streaming" THEN 1 ELSE 0))
    /\ [][(calls' # calls) =>
            (/\ Len(reads) > 0
             /\ Last(reads)[1] = "line"
             /\ Last(calls') = strip(Last(reads)[2])
             /\ Len(calls') = Len(calls) + 1)]_vars
    /\ [][(outstanding > 0) => (reads' = reads /\ calls' = calls)]_vars
    /\ [][(stdout' # stdout /\ Last(stdout') = UserPrompt) =>
            (outstanding = 0
             /\ (Len(calls) > 0 /\ Last(reads)[1] = "line" /\ HasContent(Last(reads)[2])
                    => Last(stdout) = Newline))]_vars

C10_Witness ==
    /\ pc = "streaming"
    /\ Len(calls) = 2
    /\ outstanding = 1
    /\ Len(updates) = 1

====
